---- MODULE Spec2Model ----
(***************************************************************************)
(* Model of wordlist_tool.py: generate_ngrams (counting), the __main__     *)
(* script (truncation to the limit), write_wordlist (assembly of the       *)
(* artifact) and word_cnt_to_freq (the logarithmic quantizer).             *)
(*                                                                         *)
(* Python dicts are insertion ordered; they are modelled as sequences of   *)
(* records in insertion order.  Exceptions are modelled by the variable    *)
(* error and the control state "aborted".                                  *)
(***************************************************************************)
EXTENDS Integers, Sequences, FiniteSets, TLC

\* ------------------------------------------------------------------ bounds
\* Size of the corpus: every line costs its number of tokens plus one
\* (the line terminator).
MaxCorpusLen == 6
\* Explicit values of --limit that are tried besides the default.
MaxLimit == 2
\* Largest count handed to word_cnt_to_freq when it is called on its own.
MaxCnt == 12

\* -------------------------------------------------------- program constants
MONOGRAM_SPACE == 175
FreqTop == 255
DefaultLimit == 10000000
BigramCeiling == 50000

\* ------------------------------------------------------------------ tokens
\* Raw tokens as wordpunct_tokenize delivers them: two spellings of the
\* word "a", one word "b" and one punctuation token.
RawTokens == {"a", "A", "b", "."}
Words == {"a", "b"}
None == "None"

\* str.lower() after NFC normalization.
Lower(t) ==
  CASE t = "A" -> "a"
    [] t = "B" -> "b"
    [] OTHER -> t

dict_normalize(word) == Lower(word)

\* str.capitalize(): first character upper case, the rest lower case.
Capitalize(t) ==
  CASE t = "a" -> "A"
    [] t = "A" -> "A"
    [] t = "b" -> "B"
    [] t = "B" -> "B"
    [] OTHER -> t

\* str.isalpha()
IsAlpha(t) == t \in {"a", "A", "b", "B"}

SurfaceForms == {"a", "A", "b", "B"}

\* ------------------------------------------------------------- sequences
RECURSIVE SeqSum(_)
SeqSum(s) == IF s = <<>> THEN 0 ELSE Head(s) + SeqSum(Tail(s))

Min(a, b) == IF a <= b THEN a ELSE b

\* s[:n] for n >= 0
Prefix(s, n) == SubSeq(s, 1, Min(n, Len(s)))

\* max(list) of a non-empty list of integers
MaxOf(s) == CHOOSE m \in {s[j] : j \in DOMAIN s} : \A j \in DOMAIN s : s[j] <= m

\* Index of the entry with the given key in an insertion ordered dict, 0 if
\* the key is absent.
IndexOf(d, key) ==
  IF \E j \in DOMAIN d : d[j].key = key
  THEN CHOOSE j \in DOMAIN d : d[j].key = key
  ELSE 0

\* All token sequences of length at most n.
RECURSIVE TokenSeqs(_)
TokenSeqs(n) ==
  IF n = 0 THEN {<<>>}
  ELSE LET shorter == TokenSeqs(n - 1)
       IN shorter \cup {Append(s, t) : s \in {x \in shorter : Len(x) = n - 1}, t \in RawTokens}

\* LinesOfLen[n]: the lines of at most n tokens.
LinesOfLen == [n \in 0..(MaxCorpusLen - 1) |-> TokenSeqs(n)]

CorpusLen(ls) == SeqSum([j \in DOMAIN ls |-> Len(ls[j]) + 1])

\* ------------------------------------------------------------------ state
VARIABLES
  pc,               \* control state of the run
  profanity,        \* set(m_profanity)
  lines,            \* generate_ngrams: the lines of the corpus read so far
  tokenized,        \* generate_ngrams: the tokens of the current line
  i,                \* generate_ngrams: position of the monogram loop
  monograms,        \* the dict of generate_ngrams, then the list given to write_wordlist
  bigrams,          \* the dict of generate_ngrams, then the list given to write_wordlist
  m_monograms,      \* monogram_list returned by generate_ngrams
  m_bigrams,        \* bigram_list returned by generate_ngrams
  corpus_words,     \* history: the normalized alphabetic tokens of the corpus
  limit,            \* args.limit
  offensive,        \* write_wordlist: the offensive set
  hobj,             \* write_wordlist: the answer of hunspell for every surface form
  max_monogram_cnt,
  max_bigram_cnt,
  bigram_dict,
  k,                \* write_wordlist: position of the loop over monograms
  output,           \* the lines of the output file; <<>> while it does not exist
  error,            \* the exception that ended the run, or None
  q_cnt, q_max, q_bigram, q_res  \* a call of word_cnt_to_freq on its own

gvars == <<lines, tokenized, i, m_monograms, m_bigrams, corpus_words>>
wvars == <<limit, offensive, hobj, max_monogram_cnt, max_bigram_cnt, bigram_dict, k, output>>
qvars == <<q_cnt, q_max, q_bigram, q_res>>
vars == <<pc, profanity, monograms, bigrams, error, gvars, wvars, qvars>>

ProfanitySets == SUBSET Words
OffensiveLists == {{}, {"a"}}
Limits == (0..MaxLimit) \cup {DefaultLimit}
Validators == [SurfaceForms -> {"T", "F", "Err"}]
NoResult == [exc |-> None, val |-> 0]

\* ------------------------------------------------------- generate_ngrams
\* CountMonogram without the test of line 48: a profane token is counted.
CountMonogram_CountsProfane(d, prof, tok) ==
  LET monogram == dict_normalize(tok)
      d1 == IF IndexOf(d, monogram) = 0
            THEN Append(d, [key |-> monogram, cnt |-> 0])
            ELSE d
      j == IndexOf(d1, monogram)
  IN IF ~IsAlpha(monogram) THEN d
     ELSE [d1 EXCEPT ![j].cnt = @ + 1]

\* Lines 44-49 for one token.
CountMonogram(d, prof, tok) ==
  LET monogram == dict_normalize(tok)
      d1 == IF IndexOf(d, monogram) = 0
            THEN Append(d, [key |-> monogram, cnt |-> 0])
            ELSE d
      j == IndexOf(d1, monogram)
  IN IF ~IsAlpha(monogram) THEN d
     ELSE IF monogram \notin prof
          THEN [d1 EXCEPT ![j].cnt = @ + 1]
          ELSE d1

\* CountBigram with the profanity test of line 52 on the leading token only.
CountBigram_LeadingOnly(d, prof, t1, t2) ==
  LET bigram == <<dict_normalize(t1), dict_normalize(t2)>>
      d1 == IF IndexOf(d, bigram) = 0
            THEN Append(d, [key |-> bigram, cnt |-> 0])
            ELSE d
      j == IndexOf(d1, bigram)
  IN IF IsAlpha(bigram[1]) /\ IsAlpha(bigram[2]) /\ bigram[1] \notin prof
     THEN [d1 EXCEPT ![j].cnt = @ + 1]
     ELSE d

\* Lines 52-55 for one pair of adjacent tokens.
CountBigram(d, prof, t1, t2) ==
  LET bigram == <<dict_normalize(t1), dict_normalize(t2)>>
      d1 == IF IndexOf(d, bigram) = 0
            THEN Append(d, [key |-> bigram, cnt |-> 0])
            ELSE d
      j == IndexOf(d1, bigram)
  IN IF IsAlpha(bigram[1]) /\ IsAlpha(bigram[2])
        /\ bigram[1] \notin prof /\ bigram[2] \notin prof
     THEN [d1 EXCEPT ![j].cnt = @ + 1]
     ELSE d

\* Lines 51-55: the loop over ngrams(tokenized, 2), from pair j on.
RECURSIVE CountBigrams(_, _, _, _)
CountBigrams(d, prof, toks, j) ==
  IF j + 1 > Len(toks) THEN d
  ELSE CountBigrams(CountBigram(d, prof, toks[j], toks[j + 1]), prof, toks, j + 1)

\* sorted(items, key=count, reverse=True): stable, so entries with equal
\* counts keep their insertion order.
RECURSIVE InsertDesc(_, _)
InsertDesc(sorted, e) ==
  IF sorted = <<>> THEN <<e>>
  ELSE IF Head(sorted).cnt >= e.cnt
       THEN <<Head(sorted)>> \o InsertDesc(Tail(sorted), e)
       ELSE <<e>> \o sorted

\* SortedDesc without the sort: the items in insertion order.
SortedDesc_Unsorted(d) == d

RECURSIVE SortedDesc(_)
SortedDesc(d) ==
  IF d = <<>> THEN <<>>
  ELSE InsertDesc(SortedDesc(SubSeq(d, 1, Len(d) - 1)), d[Len(d)])

\* ------------------------------------------------------ word_cnt_to_freq
\* math.log: natural logarithms of 1..15, scaled by 10^6.  The entry of a
\* composite number is the sum of the entries of its prime factors, so that
\* quotients of logarithms that are rational are exactly so.  The base 1.15
\* cancels in log(word_cnt, 1.15) / log(max_cnt, 1.15).
LnMicro == <<0, 693147, 1098612, 1386294, 1609438, 1791759, 1945910, 2079441,
             2197224, 2302585, 2397895, 2484906, 2564949, 2639057, 2708050>>

\* round(num / den) for num >= 0 and den > 0: to the nearest integer, a tie
\* to the even one.
Round(num, den) ==
  LET q == num \div den
      r == num % den
  IN IF 2 * r < den THEN q
     ELSE IF 2 * r > den THEN q + 1
     ELSE IF q % 2 = 0 THEN q ELSE q + 1

\* word_cnt_to_freq with the unigram factor MONOGRAM_SPACE instead of
\* MONOGRAM_SPACE - 1.
word_cnt_to_freq_WideSpan(word_cnt, max_cnt, bigram) ==
  LET span == IF bigram THEN FreqTop - MONOGRAM_SPACE - 1 ELSE MONOGRAM_SPACE
      base == IF bigram THEN MONOGRAM_SPACE + 1 ELSE 1
  IN IF word_cnt <= 0 \/ max_cnt <= 0 THEN [exc |-> "ValueError", val |-> 0]
     ELSE IF max_cnt = 1 THEN [exc |-> "ZeroDivisionError", val |-> 0]
     ELSE [exc |-> None,
           val |-> Round(span * LnMicro[word_cnt] + base * LnMicro[max_cnt], LnMicro[max_cnt])]

\* Lines 27-33.  math.log raises ValueError for an argument <= 0, and the
\* division raises ZeroDivisionError when log(max_cnt) is 0.0.
word_cnt_to_freq(word_cnt, max_cnt, bigram) ==
  LET span == IF bigram THEN FreqTop - MONOGRAM_SPACE - 1 ELSE MONOGRAM_SPACE - 1
      base == IF bigram THEN MONOGRAM_SPACE + 1 ELSE 1
  IN IF word_cnt <= 0 \/ max_cnt <= 0 THEN [exc |-> "ValueError", val |-> 0]
     ELSE IF max_cnt = 1 THEN [exc |-> "ZeroDivisionError", val |-> 0]
     ELSE [exc |-> None,
           val |-> Round(span * LnMicro[word_cnt] + base * LnMicro[max_cnt], LnMicro[max_cnt])]

\* -------------------------------------------------------- write_wordlist
\* A line of the output file.  key and cnt are history fields: the
\* monogram key and raw count of a word line, the leading token and raw
\* count of a bigram line.
Header == [kind |-> "header", form |-> "", f |-> 0, offensive |-> FALSE, key |-> "", cnt |-> 0]

\* Lines 79-83: the complements of the bigrams that bigram_dict lists under
\* the key w, in the order of the bigram list.  lead is a history field.
RECURSIVE GroupOf(_, _)
GroupOf(bs, w) ==
  IF bs = <<>> THEN <<>>
  ELSE IF Head(bs).key[1] = w
       THEN <<[word |-> Head(bs).key[2], cnt |-> Head(bs).cnt, lead |-> Head(bs).key[1]]>>
            \o GroupOf(Tail(bs), w)
       ELSE GroupOf(Tail(bs), w)

\* BuildBigramDict keyed by the trailing token bigram[0][1] instead of the
\* leading token bigram[0][0].
RECURSIVE GroupOfTrailing(_, _)
GroupOfTrailing(bs, w) ==
  IF bs = <<>> THEN <<>>
  ELSE IF Head(bs).key[2] = w
       THEN <<[word |-> Head(bs).key[1], cnt |-> Head(bs).cnt, lead |-> Head(bs).key[1]]>>
            \o GroupOfTrailing(Tail(bs), w)
       ELSE GroupOfTrailing(Tail(bs), w)

BuildBigramDict_ByTrailing(bs) ==
  [w \in {bs[j].key[2] : j \in DOMAIN bs} |-> GroupOfTrailing(bs, w)]

BuildBigramDict(bs) == [w \in {bs[j].key[1] : j \in DOMAIN bs} |-> GroupOf(bs, w)]

\* bigram_dict.get(word, [])
DictGet(d, word) == IF word \in DOMAIN d THEN d[word] ELSE <<>>

\* ResolveWord where an encoding failure of the lowercase form is taken as a
\* rejection, so that the capitalized form is tried.
ResolveWord_ErrFallsThrough(h, key) ==
  IF h[key] = "T" THEN key
  ELSE IF h[Capitalize(key)] = "T" THEN Capitalize(key)
  ELSE None

\* Lines 88-95: the surface form of a monogram, None if no form is accepted
\* or hunspell raised UnicodeEncodeError.
ResolveWord(h, key) ==
  IF h[key] = "T" THEN key
  ELSE IF h[key] = "Err" THEN None
  ELSE IF h[Capitalize(key)] = "T" THEN Capitalize(key)
  ELSE None

\* Lines 105-116: the bigram lines of a group from complement j on, up to
\* the first exception that is not caught.
RECURSIVE BigramEntries(_, _, _, _, _)
BigramEntries(group, j, h, off, max_bi) ==
  IF j > Len(group) THEN [lines |-> <<>>, exc |-> None]
  ELSE LET c == group[j]
           rest == BigramEntries(group, j + 1, h, off, max_bi)
           fr == word_cnt_to_freq(c.cnt, max_bi, TRUE)
       IN IF h[c.word] = "T"
          THEN IF fr.exc # None
               THEN [lines |-> <<>>, exc |-> fr.exc]
               ELSE [lines |-> <<[kind |-> "bigram", form |-> c.word, f |-> fr.val,
                                  offensive |-> c.word \in off,
                                  key |-> c.lead, cnt |-> c.cnt]>> \o rest.lines,
                     exc |-> rest.exc]
          ELSE rest

\* Lines 88-116: the lines written for one monogram, up to the first
\* exception that is not caught.
WordEntry(monogram, h, off, max_mono, max_bi, bdict) ==
  LET word == ResolveWord(h, monogram.key)
      fr == IF monogram.cnt = 0 THEN NoResult
            ELSE word_cnt_to_freq(monogram.cnt, max_mono, FALSE)
      bl == BigramEntries(DictGet(bdict, word), 1, h, off, max_bi)
  IN IF word = None THEN [lines |-> <<>>, exc |-> None]
     ELSE IF fr.exc # None THEN [lines |-> <<>>, exc |-> fr.exc]
     ELSE [lines |-> <<[kind |-> "word", form |-> word, f |-> fr.val,
                        offensive |-> word \in off,
                        key |-> monogram.key, cnt |-> monogram.cnt]>> \o bl.lines,
           exc |-> bl.exc]

\* ---------------------------------------------------------------- actions
Init ==
  /\ pc = "read"
  /\ profanity \in ProfanitySets
  /\ lines = <<>>
  /\ tokenized = <<>>
  /\ i = 1
  /\ monograms = <<>>
  /\ bigrams = <<>>
  /\ m_monograms = <<>>
  /\ m_bigrams = <<>>
  /\ corpus_words = {}
  /\ limit = DefaultLimit
  /\ offensive = {}
  /\ hobj = [s \in SurfaceForms |-> "F"]
  /\ max_monogram_cnt = 0
  /\ max_bigram_cnt = 0
  /\ bigram_dict = BuildBigramDict(<<>>)
  /\ k = 1
  /\ output = <<>>
  /\ error = None
  /\ q_cnt = 0
  /\ q_max = 0
  /\ q_bigram = FALSE
  /\ q_res = NoResult

\* Lines 42-43: the next line of the input file is read and tokenized.
ReadLine ==
  /\ pc = "read"
  /\ CorpusLen(lines) < MaxCorpusLen
  /\ \E l \in LinesOfLen[MaxCorpusLen - CorpusLen(lines) - 1] :
       /\ lines' = Append(lines, l)
       /\ tokenized' = l
  /\ i' = 1
  /\ pc' = "monograms"
  /\ UNCHANGED <<profanity, monograms, bigrams, error, m_monograms, m_bigrams, corpus_words, wvars, qvars>>

\* Lines 44-49: one iteration of the monogram loop.
MonogramStep ==
  /\ pc = "monograms"
  /\ i <= Len(tokenized)
  /\ monograms' = CountMonogram(monograms, profanity, tokenized[i])
  /\ i' = i + 1
  /\ UNCHANGED <<pc, profanity, bigrams, error, lines, tokenized, m_monograms, m_bigrams, corpus_words, wvars, qvars>>

\* Lines 51-55: the bigram loop of the line, after its monogram loop.
BigramLoop ==
  /\ pc = "monograms"
  /\ i > Len(tokenized)
  /\ bigrams' = CountBigrams(bigrams, profanity, tokenized, 1)
  /\ pc' = "read"
  /\ UNCHANGED <<profanity, monograms, error, gvars, wvars, qvars>>

\* Lines 56-59: end of file; both tables are sorted and returned, and the
\* locals of generate_ngrams go out of scope.  The corpus read is
\* summarized by the set of its normalized alphabetic tokens.
EndOfFile ==
  /\ pc = "read"
  /\ m_monograms' = SortedDesc(monograms)
  /\ m_bigrams' = SortedDesc(bigrams)
  /\ corpus_words' = {dict_normalize(lines[n][j]) : <<n, j>> \in
                        {p \in (DOMAIN lines) \X (1..MaxCorpusLen) :
                           p[2] <= Len(lines[p[1]]) /\ IsAlpha(lines[p[1]][p[2]])}}
  /\ lines' = <<>>
  /\ tokenized' = <<>>
  /\ i' = 1
  /\ monograms' = <<>>
  /\ bigrams' = <<>>
  /\ pc' = "main"
  /\ UNCHANGED <<profanity, error, wvars, qvars>>

\* Lines 139-149: the offensive list is read, both lists are truncated and
\* write_wordlist is called.
Main ==
  /\ pc = "main"
  /\ \E n \in Limits, m_offensive \in OffensiveLists :
       LET monogram_limit == n
           bigram_limit == Min(BigramCeiling, n)
       IN /\ limit' = n
          /\ monograms' = Prefix(m_monograms, monogram_limit)
          /\ bigrams' = Prefix(m_bigrams, bigram_limit)
          /\ offensive' = m_offensive \cup profanity
  /\ pc' = "write_wordlist"
  /\ UNCHANGED <<profanity, error, gvars, hobj, max_monogram_cnt, max_bigram_cnt, bigram_dict, k, output, qvars>>

\* Lines 64-86: the dictionary is opened, the maxima and bigram_dict are
\* computed and the header is written.  max() of an empty list raises
\* ValueError before the output file is opened.
OpenWordlist ==
  /\ pc = "write_wordlist"
  /\ hobj' \in Validators
  /\ IF monograms = <<>> \/ bigrams = <<>>
     THEN /\ error' = "ValueError"
          /\ pc' = "aborted"
          /\ UNCHANGED <<max_monogram_cnt, max_bigram_cnt, bigram_dict, output>>
     ELSE /\ max_monogram_cnt' = MaxOf([j \in DOMAIN monograms |-> monograms[j].cnt])
          /\ max_bigram_cnt' = MaxOf([j \in DOMAIN bigrams |-> bigrams[j].cnt])
          /\ bigram_dict' = BuildBigramDict(bigrams)
          /\ output' = <<Header>>
          /\ pc' = "words"
          /\ error' = None
  /\ k' = 1
  /\ UNCHANGED <<profanity, monograms, bigrams, gvars, limit, offensive, qvars>>

\* Lines 87-116: one iteration of the loop over the monograms, with its
\* loop over the bigrams of the word.
WriteMonogram ==
  /\ pc = "words"
  /\ k <= Len(monograms)
  /\ LET e == WordEntry(monograms[k], hobj, offensive, max_monogram_cnt, max_bigram_cnt, bigram_dict)
     IN /\ output' = output \o e.lines
        /\ error' = e.exc
        /\ pc' = IF e.exc = None THEN "words" ELSE "aborted"
  /\ k' = k + 1
  /\ UNCHANGED <<profanity, monograms, bigrams, gvars, limit, offensive, hobj, max_monogram_cnt, max_bigram_cnt, bigram_dict, qvars>>

\* Line 87: the list is exhausted, the file is closed and the run ends.
Finish ==
  /\ pc = "words"
  /\ k > Len(monograms)
  /\ pc' = "done"
  /\ UNCHANGED <<profanity, monograms, bigrams, error, gvars, wvars, qvars>>

Next ==
  \/ ReadLine
  \/ MonogramStep
  \/ BigramLoop
  \/ EndOfFile
  \/ Main
  \/ OpenWordlist
  \/ WriteMonogram
  \/ Finish

Spec == Init /\ [][Next]_vars

\* A call of word_cnt_to_freq on its own, with 0 < word_cnt <= max_cnt.
InitQuantize ==
  /\ pc = "quantize"
  /\ q_max \in 1..MaxCnt
  /\ q_cnt \in 1..q_max
  /\ q_bigram \in BOOLEAN
  /\ q_res = NoResult
  /\ profanity = {}
  /\ lines = <<>>
  /\ tokenized = <<>>
  /\ i = 1
  /\ monograms = <<>>
  /\ bigrams = <<>>
  /\ m_monograms = <<>>
  /\ m_bigrams = <<>>
  /\ corpus_words = {}
  /\ limit = DefaultLimit
  /\ offensive = {}
  /\ hobj = [s \in SurfaceForms |-> "F"]
  /\ max_monogram_cnt = 0
  /\ max_bigram_cnt = 0
  /\ bigram_dict = BuildBigramDict(<<>>)
  /\ k = 1
  /\ output = <<>>
  /\ error = None

\* Lines 27-33.
Quantize ==
  /\ pc = "quantize"
  /\ q_res' = word_cnt_to_freq(q_cnt, q_max, q_bigram)
  /\ pc' = "quantized"
  /\ UNCHANGED <<profanity, monograms, bigrams, error, gvars, wvars, q_cnt, q_max, q_bigram>>

NextQuantize == Quantize

SpecQuantize == InitQuantize /\ [][NextQuantize]_vars

\* ------------------------------------------------------------ properties
Counting == pc \in {"read", "monograms"}
Writing == pc \in {"words", "done", "aborted"} /\ output # <<>>
Ended == pc \in {"done", "aborted"}

RECURSIVE Flatten(_)
Flatten(ls) == IF ls = <<>> THEN <<>> ELSE Head(ls) \o Flatten(Tail(ls))

\* The lines whose loop body has run to its end.
CompleteLines == IF pc = "monograms" THEN SubSeq(lines, 1, Len(lines) - 1) ELSE lines

\* The tokens the monogram loop has processed so far.
Processed == IF pc = "monograms"
             THEN Flatten(CompleteLines) \o SubSeq(tokenized, 1, i - 1)
             ELSE Flatten(lines)

NormalizedTokens == {dict_normalize(t) : t \in RawTokens}

\* Number of occurrences of the normalized token w among the processed tokens.
Occ(w) == Cardinality({p \in DOMAIN Processed : dict_normalize(Processed[p]) = w})

\* Number of positions of the complete lines where w1 is directly followed
\* by w2.
Adj(w1, w2) ==
  Cardinality({p \in (DOMAIN CompleteLines) \X (1..MaxCorpusLen) :
                 /\ p[2] + 1 <= Len(CompleteLines[p[1]])
                 /\ dict_normalize(CompleteLines[p[1]][p[2]]) = w1
                 /\ dict_normalize(CompleteLines[p[1]][p[2] + 1]) = w2})

UniqueKeys(d) == \A j1, j2 \in DOMAIN d : d[j1].key = d[j2].key => j1 = j2

\* C7: after any prefix of the token stream the monogram table has an entry
\* for a normalized token iff the token has occurred as an alphabetic token;
\* the count of an entry is 0 iff the token is in the profanity set, and is
\* otherwise the number of occurrences so far.
C7_MonogramCounts ==
  Counting =>
    /\ UniqueKeys(monograms)
    /\ \A j \in DOMAIN monograms : monograms[j].key \in NormalizedTokens
    /\ \A w \in NormalizedTokens :
         LET j == IndexOf(monograms, w)
         IN /\ (j # 0) <=> (IsAlpha(w) /\ Occ(w) >= 1)
            /\ j # 0 => /\ (monograms[j].cnt = 0) <=> (w \in profanity)
                        /\ w \notin profanity => monograms[j].cnt = Occ(w)

\* C7 witness: in the middle of a line, with both spellings of a word and a
\* punctuation token processed, a profane entry at 0 and an entry above 1.
C7_Witness ==
  /\ pc = "monograms" /\ i > 1 /\ i <= Len(tokenized)
  /\ {"a", "A", "."} \subseteq {Processed[p] : p \in DOMAIN Processed}
  /\ \E j \in DOMAIN monograms : monograms[j].cnt = 0
  /\ \E j \in DOMAIN monograms : monograms[j].cnt >= 2

\* C8: after any sequence of lines every bigram entry has a count >= 1, two
\* alphabetic tokens outside the profanity set, and a count equal to the
\* number of positions where the two tokens are adjacent within one line;
\* every such adjacent pair has an entry.
C8_BigramCounts ==
  Counting =>
    /\ UniqueKeys(bigrams)
    /\ \A j \in DOMAIN bigrams :
         LET b == bigrams[j]
         IN /\ b.cnt >= 1
            /\ b.key[1] \in NormalizedTokens /\ b.key[2] \in NormalizedTokens
            /\ IsAlpha(b.key[1]) /\ IsAlpha(b.key[2])
            /\ b.key[1] \notin profanity /\ b.key[2] \notin profanity
            /\ b.cnt = Adj(b.key[1], b.key[2])
    /\ \A w1, w2 \in NormalizedTokens :
         (IsAlpha(w1) /\ IsAlpha(w2) /\ w1 \notin profanity /\ w2 \notin profanity
            /\ Adj(w1, w2) >= 1) => IndexOf(bigrams, <<w1, w2>>) # 0

\* C8 witness: two lines; the pair of words across the line boundary has no
\* entry, another pair has count 2.
C8_Witness ==
  /\ pc = "read" /\ Len(lines) = 2
  /\ lines[1] # <<>> /\ lines[2] # <<>>
  /\ LET w1 == dict_normalize(lines[1][Len(lines[1])])
         w2 == dict_normalize(lines[2][1])
     IN /\ IsAlpha(w1) /\ IsAlpha(w2)
        /\ w1 \notin profanity /\ w2 \notin profanity
        /\ IndexOf(bigrams, <<w1, w2>>) = 0
  /\ \E j \in DOMAIN bigrams : bigrams[j].cnt >= 2

\* The word line that opens the block of the output line q: the nearest line
\* before q that is not a bigram line, 0 if there is none.
BlockStart(q) ==
  IF \E p \in 1..(q - 1) : output[p].kind # "bigram"
  THEN CHOOSE p \in 1..(q - 1) :
         /\ output[p].kind # "bigram"
         /\ \A r \in (p + 1)..(q - 1) : output[r].kind = "bigram"
  ELSE 0

\* C2: every bigram line of the output belongs to the block that directly
\* follows a word line whose normalized key is the leading token of the
\* bigram; the first line of the file is the header.
C2_GroupingLaw ==
  /\ output # <<>> => output[1].kind = "header"
  /\ \A q \in DOMAIN output :
       output[q].kind = "bigram" =>
         LET p == BlockStart(q)
         IN /\ p # 0
            /\ output[p].kind = "word"
            /\ dict_normalize(output[p].form) = output[q].key
            /\ output[p].key = output[q].key

\* C2 witness: a finished file where a word line without bigram lines (its
\* word was given in capitalized form) precedes a block of bigram lines.
C2_Witness ==
  /\ pc = "done"
  /\ \E p, q \in DOMAIN output :
       /\ p + 1 < q
       /\ output[p].kind = "word" /\ output[p].form = Capitalize(output[p].key)
       /\ output[p + 1].kind = "word"
       /\ output[q].kind = "bigram"

\* Position of the bigram (w1, w2) in the list given to write_wordlist.
BigramIndex(w1, w2) == IndexOf(bigrams, <<w1, w2>>)

\* C6: word lines are in non-increasing order of their raw monogram count;
\* the bigram lines of one block are in the order of the bigram list, which
\* is non-increasing in the raw bigram count.
C6_OutputOrdering ==
  \A p, q \in DOMAIN output :
    p < q =>
      /\ (output[p].kind = "word" /\ output[q].kind = "word")
           => output[p].cnt >= output[q].cnt
      /\ (output[p].kind = "bigram" /\ output[q].kind = "bigram"
            /\ BlockStart(p) = BlockStart(q))
           => /\ output[p].cnt >= output[q].cnt
              /\ BigramIndex(output[p].key, output[p].form)
                   < BigramIndex(output[q].key, output[q].form)

\* C6 witness: a file with two word lines of different counts and a block
\* of two bigram lines of different counts, from tables whose insertion
\* order is not the sorted order.
C6_Witness ==
  /\ Writing
  /\ \E p, q \in DOMAIN output :
       /\ output[p].kind = "word" /\ output[q].kind = "word"
       /\ output[p].cnt > output[q].cnt
  /\ \E p \in DOMAIN output :
       /\ p + 1 \in DOMAIN output
       /\ output[p].kind = "bigram" /\ output[p + 1].kind = "bigram"
       /\ output[p].cnt > output[p + 1].cnt

\* The loop of lines 87-116 over the first n monograms under the validator
\* h, up to the first exception that is not caught.
RECURSIVE WriteLoop(_, _)
WriteLoop(n, h) ==
  IF n = 0 THEN [lines |-> <<>>, exc |-> None]
  ELSE LET prev == WriteLoop(n - 1, h)
           e == WordEntry(monograms[n], h, offensive, max_monogram_cnt, max_bigram_cnt, bigram_dict)
       IN IF prev.exc # None THEN prev
          ELSE [lines |-> prev.lines \o e.lines, exc |-> e.exc]

\* The validator that rejects every entry for which h raises: a surface
\* form that raises is rejected, and so is the capitalized form of a
\* lowercase form that raises.
Rejecting(h) ==
  [s \in SurfaceForms |->
     IF h[s] = "Err" \/ h[dict_normalize(s)] = "Err" THEN "F" ELSE h[s]]

\* C10: UnicodeEncodeError never ends the run, and the file (and the end
\* of the run) is the one written when every entry for which the validator
\* raises is rejected by the validator instead.
C10_EncodingFailureSkipsEntry ==
  /\ error # "UnicodeEncodeError"
  /\ Writing =>
       LET r == WriteLoop(k - 1, Rejecting(hobj))
       IN /\ output = <<Header>> \o r.lines
          /\ error = r.exc

\* C10 witness: a finished run in which the validator raised for a word of
\* the list and for the trailing token of a bigram under a written word,
\* and another bigram of that word was written.
C10_Witness ==
  /\ pc = "done"
  /\ \E j \in DOMAIN monograms : hobj[monograms[j].key] = "Err"
  /\ \E n \in DOMAIN bigrams, p \in DOMAIN output :
       /\ hobj[bigrams[n].key[2]] = "Err"
       /\ output[p].kind = "word" /\ output[p].form = bigrams[n].key[1]
       /\ p + 1 \in DOMAIN output /\ output[p + 1].kind = "bigram"

\* C9 (as claimed): a monogram whose lowercase form is rejected and whose
\* capitalized form is accepted is written as a capitalized word line whose
\* block holds a bigram line for every bigram of the list with that
\* lowercase leading token and an accepted trailing token.  Stated for the
\* runs that complete with a bigram maximum above 1, where every bigram
\* score is defined.
C9_BigramsUnderLowercaseKey ==
  (pc = "done" /\ max_bigram_cnt > 1) =>
    \A j \in DOMAIN monograms :
      LET key == monograms[j].key
      IN (hobj[key] = "F" /\ hobj[Capitalize(key)] = "T") =>
           \E p \in DOMAIN output :
             /\ output[p].kind = "word" /\ output[p].form = Capitalize(key)
             /\ \A n \in DOMAIN bigrams :
                  (bigrams[n].key[1] = key /\ hobj[bigrams[n].key[2]] = "T") =>
                    \E q \in DOMAIN output :
                      /\ output[q].kind = "bigram" /\ BlockStart(q) = p
                      /\ output[q].form = bigrams[n].key[2]

\* C1 (as claimed): every profane token of the corpus that the validator
\* accepts, in lowercase or else capitalized, has a word line with f=0 and
\* possibly_offensive=true in the output of the run.  Stated for the runs
\* that complete under the default limit, which truncates nothing.
C1_ProfanityListed ==
  (pc = "done" /\ limit = DefaultLimit) =>
    \A w \in profanity \cap corpus_words :
      (hobj[w] = "T" \/ (hobj[w] = "F" /\ hobj[Capitalize(w)] = "T")) =>
        \E p \in DOMAIN output :
          /\ output[p].kind = "word" /\ output[p].key = w
          /\ output[p].f = 0 /\ output[p].offensive

\* C5 (as claimed): a run with limit = 0 completes and its output is the
\* header line alone.  Stated for a corpus that has words and bigrams.
C5_LimitZeroHeaderOnly ==
  (Ended /\ limit = 0 /\ m_bigrams # <<>>) => (pc = "done" /\ output = <<Header>>)

\* C3 (as claimed): for 0 < c <= max the unigram score that
\* word_cnt_to_freq returns is an integer in [1,174].
C3_UnigramRange174 ==
  (pc = "quantized" /\ ~q_bigram /\ q_res.exc = None) => q_res.val \in 1..(MONOGRAM_SPACE - 1)

\* C3 (amended): for 0 < c <= max the unigram score is an integer in
\* [1,175], except that the call raises ZeroDivisionError when max = 1.
C3_UnigramRange ==
  (pc = "quantized" /\ ~q_bigram) =>
    IF q_max = 1
    THEN q_res.exc = "ZeroDivisionError"
    ELSE q_res.exc = None /\ q_res.val \in 1..MONOGRAM_SPACE

\* C3 witness: the unigram score of the maximum count, for a maximum
\* above 1, is 175.
C3_Witness ==
  /\ pc = "quantized" /\ ~q_bigram
  /\ q_cnt = q_max /\ q_max > 1
  /\ q_res.exc = None /\ q_res.val = MONOGRAM_SPACE

\* C4 (as claimed): for every max >= 1 the score of the maximum count is
\* 174 for a unigram and 255 for a bigram, without error.
C4_TopOfRange ==
  (pc = "quantized" /\ q_cnt = q_max) =>
    /\ q_res.exc = None
    /\ q_res.val = IF q_bigram THEN FreqTop ELSE MONOGRAM_SPACE - 1
====
